---- MODULE Spec2Model ----
(***************************************************************************)
(* bobbot: a search-tree engine (src/bobbot/search_tree.py) over the       *)
(* tic-tac-toe game adapter (src/bobbot/games/tictactoe.py).               *)
(*                                                                         *)
(* The engine keeps a transposition table (search_tree: node key -> node), *)
(* a reference to the current node, and is composed from mixins: an        *)
(* expansion strategy, an expansion control, and optionally pruning.       *)
(* An action is one whole public call on the engine; SpecFull, which is    *)
(* about the termination of a loop, takes that loop iteration by iteration.*)
(***************************************************************************)
EXTENDS Integers, Sequences, FiniteSets, Bags, TLC

(***************************************************************************)
(* Bounds of the model.                                                    *)
(***************************************************************************)
\* The engine is constructed on a position with at most MaxEmpty empty cells.
MaxEmpty == 3
\* Largest search_depth a forward-sweeping engine is configured with.
MaxDepth == 2
\* How often step_search_tree_expansion() is called from outside on a
\* forward-sweeping engine, at most, and the number of empty cells, at most,
\* of the position such an engine is constructed on.
MaxDirectSteps == 1
MaxStepEmpty == 2
\* The node limit a bounded engine is configured with.
NodeLimit == 4

(***************************************************************************)
(* tictactoe.py: types, constants and helpers                              *)
(***************************************************************************)
PLAYER_X == 1
PLAYER_O == 2
\* Python's None: an empty cell, no active player, no winner.
None == 0

Range3 == 0 .. 2
Coords == Range3 \X Range3

player_symbol(p) ==
    CASE p = PLAYER_X -> "X"
      [] p = PLAYER_O -> "O"
      [] p = None     -> " "

\* [(x,y) for x in range(3) for y in range(3)]
CoordList == [i \in 1 .. 9 |-> << (i - 1) \div 3, (i - 1) % 3 >>]

(***************************************************************************)
(* tictactoe.py: functional implementation of the game rules               *)
(***************************************************************************)
GameState(board, active_player) ==
    [board |-> board, active_player |-> active_player]

starting_state == GameState([c \in Coords |-> None], PLAYER_X)

is_winner(game_state, player) ==
    LET b == game_state.board
        row == \E b_row \in Range3 :
                  \A b_column \in Range3 : b[<<b_column, b_row>>] = player
        column == \E b_column \in Range3 :
                     \A b_row \in Range3 : b[<<b_column, b_row>>] = player
        diagonal_a == \A d \in Range3 : b[<<d, d>>] = player
        diagonal_b == \A d \in Range3 : b[<<d, 2 - d>>] = player
    IN  row \/ column \/ diagonal_a \/ diagonal_b

is_finished(game_state) ==
    LET player_won == is_winner(game_state, PLAYER_X)
                      \/ is_winner(game_state, PLAYER_O)
        board_full == \A c \in Coords : game_state.board[c] # None
    IN  player_won \/ board_full

is_legal_move(game_state, coord) ==
    ~is_finished(game_state) /\ game_state.board[coord] = None

\* Defined for legal moves only; an illegal move raises ValueError.
game_make_move(game_state, coord) ==
    LET successor_board == [game_state.board EXCEPT ![coord] = game_state.active_player]
        tentative == GameState(successor_board, None)
        successor_active_player ==
            IF is_finished(tentative) THEN None
            ELSE IF game_state.active_player = PLAYER_X THEN PLAYER_O
            ELSE PLAYER_X
    IN  GameState(successor_board, successor_active_player)

all_legal_moves(game_state) ==
    LET legal(coord) == is_legal_move(game_state, coord)
    IN  SelectSeq(CoordList, legal)

\* A key that tells the occupied cells from the empty ones only.
node_key_of_occupancy(game_state) ==
    [i \in 1 .. 9 |-> IF game_state.board[CoordList[i]] = None THEN " " ELSE "#"]

\* ''.join(player_symbol(board[(x,y)]) for x in range(3) for y in range(3)):
\* the string is modelled as the sequence of its nine characters.
node_key(game_state) ==
    [i \in 1 .. 9 |-> player_symbol(game_state.board[CoordList[i]])]

(***************************************************************************)
(* Helpers over sequences and functions                                    *)
(***************************************************************************)
SeqRange(s) == {s[i] : i \in 1 .. Len(s)}

EmptyMap == [x \in {} |-> None]

\* dict item assignment d[k] = v
Put(d, k, v) == [x \in DOMAIN d \cup {k} |-> IF x = k THEN v ELSE d[x]]

CountEmpty(game_state) ==
    Cardinality({c \in Coords : game_state.board[c] = None})

\* The score of each player.  Scores are counted in halves, the draw being
\* worth -0.5 to each player: a win is 2, a loss -2, a draw -1.
ScorePair(x_score, o_score) ==
    [p \in {PLAYER_X, PLAYER_O} |-> IF p = PLAYER_X THEN x_score ELSE o_score]

\* tictactoe.winner; the ValueError of an unfinished game is "ValueError".
winner(game_state) ==
    IF is_winner(game_state, PLAYER_X) THEN PLAYER_X
    ELSE IF is_winner(game_state, PLAYER_O) THEN PLAYER_O
    ELSE IF ~is_finished(game_state) THEN "ValueError"
    ELSE None

\* An evaluation that tells no outcome from another.
evaluate_indifferent(game_state) == ScorePair(0, 0)

\* tictactoe.evaluate, in halves
evaluate(game_state) ==
    IF ~is_finished(game_state) THEN ScorePair(0, 0)
    ELSE IF is_winner(game_state, PLAYER_X) THEN ScorePair(2, -2)
    ELSE IF is_winner(game_state, PLAYER_O) THEN ScorePair(-2, 2)
    ELSE ScorePair(-1, -1)

(***************************************************************************)
(* SearchNode (bobbot/search_node.py).  A node wraps one game state.       *)
(* A reference to a node object is its key together with the fact whether  *)
(* the object is the one stored in the table under that key (in_tree) or   *)
(* another, freshly constructed object with the same key.                  *)
(***************************************************************************)
Ref(key, in_tree) == [key |-> key, in_tree |-> in_tree]

SearchNode(state) ==
    [state |-> state, is_expanded |-> FALSE, successors |-> EmptyMap]

_node_key(node) == node_key(node.state)

\* node.expand(): one freshly constructed node per legal move, in the order
\* of all_legal_moves.
expand_successors(node) ==
    LET moves == all_legal_moves(node.state)
    IN  [i \in 1 .. Len(moves) |-> SearchNode(game_make_move(node.state, moves[i]))]

\* The node after expand(): expanded, its successors map every legal move to
\* the freshly constructed successor.
expand_node(node) ==
    LET moves == all_legal_moves(node.state)
    IN  [node EXCEPT
           !.is_expanded = TRUE,
           !.successors = [m \in SeqRange(moves) |->
                             Ref(node_key(game_make_move(node.state, m)), FALSE)]]

\* resident.merge(other): the successor map becomes the union of both maps.
merge(resident, other) ==
    [resident EXCEPT
       !.successors = [m \in DOMAIN resident.successors \cup DOMAIN other.successors |->
                         IF m \in DOMAIN resident.successors
                         THEN resident.successors[m]
                         ELSE other.successors[m]]]

\* node.post_expansion_insertion(old, new): every successor now refers to the
\* node object the engine registered for its key.
post_expansion_insertion(node, old, new) ==
    [node EXCEPT
       !.successors = [m \in DOMAIN node.successors |->
                         LET k == node.successors[m].key
                         IN  IF k \in DOMAIN new THEN new[k]
                             ELSE IF k \in DOMAIN old THEN old[k]
                             ELSE node.successors[m]]]

\* node.get_successors(): the keys of the successors.
get_successors(node) == {node.successors[m].key : m \in DOMAIN node.successors}

\* node.get_successor_nodes(): the successor node objects.
get_successor_nodes(node) == {node.successors[m] : m \in DOMAIN node.successors}

\* node._is_finished()
_is_finished(node) == is_finished(node.state)

\* The moves of the sequence whose successor has the best score for the
\* player, in the order of the sequence; successor_scores maps every move to
\* the score of its successor.
best_moves(successor_scores, moves, player) ==
    SelectSeq(moves, LAMBDA m : \A n \in DOMAIN successor_scores :
                                  successor_scores[n][player] <= successor_scores[m][player])

\* The minimax score of a node whose successors are scored in scores: the
\* adapter's evaluation of a node without successors; else the score of the
\* successor that is best for the active player.
node_score(scores, node) ==
    IF DOMAIN node.successors = {} THEN evaluate(node.state)
    ELSE LET successor_scores ==
                 [m \in DOMAIN node.successors |-> scores[node.successors[m].key]]
         IN  successor_scores[Head(best_moves(successor_scores,
                                              all_legal_moves(node.state),
                                              node.state.active_player))]

\* The backward propagation of the scores through the table: scores are
\* given to the nodes all of whose successors are scored, until all are.
RECURSIVE score_all(_, _)
score_all(tree, scored) ==
    LET ready == {k \in DOMAIN tree \ DOMAIN scored :
                     get_successors(tree[k]) \subseteq DOMAIN scored}
    IN  IF ready = {} THEN scored
        ELSE score_all(tree, scored @@ [k \in ready |-> node_score(scored, tree[k])])

\* node.find_best_move() under each move selection policy: the set of the
\* moves it may return, none (<< >>) for a node without successors.
find_best_move(scores, node, selection) ==
    LET successor_scores ==
            [m \in DOMAIN node.successors |-> scores[node.successors[m].key]]
        best == best_moves(successor_scores, all_legal_moves(node.state),
                           node.state.active_player)
    IN  IF DOMAIN node.successors = {} THEN { << >> }
        ELSE IF "ChooseFirstMoveMixin" \in selection THEN {Head(best)}
        ELSE IF "ChooseRandomMoveFromBestMixin" \in selection THEN SeqRange(best)
        ELSE DOMAIN node.successors

(***************************************************************************)
(* BaseAI                                                                  *)
(***************************************************************************)
\* The node object a reference denotes.  Every reference the engine stores
\* is to the object resident in the table.
Deref(tree, ref) == tree[ref.key]

\* add_node storing the node under a key that also encodes whose turn it is.
add_node_keyed_with_turn(tree, node) ==
    LET key == Append(_node_key(node), player_symbol(node.state.active_player))
    IN  IF key \notin DOMAIN tree
        THEN [tree |-> Put(tree, key, node), is_new |-> TRUE]
        ELSE [tree |-> [tree EXCEPT ![key] = merge(@, node)], is_new |-> FALSE]

\* add_node putting the incoming node in the place of the resident one.
add_node_replacing_resident(tree, node) ==
    [tree |-> Put(tree, _node_key(node), node),
     is_new |-> _node_key(node) \notin DOMAIN tree]

\* BaseAI.add_node: [tree, is_new]
add_node(tree, node) ==
    IF _node_key(node) \notin DOMAIN tree
    THEN [tree |-> Put(tree, _node_key(node), node), is_new |-> TRUE]
    ELSE [tree |-> [tree EXCEPT ![_node_key(node)] = merge(@, node)],
          is_new |-> FALSE]

\* The loop of expand_single_node over the produced successors, from the i-th
\* on: [tree, old, new].  add_successor is the loop body after its add_node
\* call, whose result is added.
RECURSIVE add_successors(_, _, _, _)
RECURSIVE add_successor(_, _, _, _, _)
add_successors(tree, produced, i, seen) ==
    IF i > Len(produced)
    THEN [tree |-> tree, old |-> seen.old, new |-> seen.new]
    ELSE add_successor(add_node(tree, produced[i]), produced[i], produced, i, seen)

\* The loop body recording, for a merged successor, the freshly constructed
\* node instead of the table's.
add_successor_recording_fresh(added, successor, produced, i, seen) ==
    IF added.is_new
    THEN add_successors(added.tree, produced, i + 1,
                        [seen EXCEPT !.new = Put(@, _node_key(successor),
                                                 Ref(_node_key(successor), TRUE))])
    ELSE add_successors(added.tree, produced, i + 1,
                        [seen EXCEPT !.old = Put(@, _node_key(successor),
                                                 Ref(_node_key(successor), FALSE))])

add_successor(added, successor, produced, i, seen) ==
    IF added.is_new
    THEN add_successors(added.tree, produced, i + 1,
                        [seen EXCEPT !.new = Put(@, _node_key(successor),
                                                 Ref(_node_key(successor), TRUE))])
    ELSE add_successors(added.tree, produced, i + 1,
                        [seen EXCEPT !.old = Put(@, _node_key(successor),
                                                 Ref(_node_key(successor), TRUE))])

\* The end of expand_single_node reporting an expansion whatever it produced.
post_expansion_reporting_expansion(r, key) ==
    [tree |-> [r.tree EXCEPT ![key] = post_expansion_insertion(@, r.old, r.new)],
     ret |-> TRUE]

\* The end of expand_single_node, r being what its loop left: [tree, ret].
post_expansion(r, key) ==
    [tree |-> [r.tree EXCEPT ![key] = post_expansion_insertion(@, r.old, r.new)],
     ret |-> Cardinality(DOMAIN r.old) + Cardinality(DOMAIN r.new) > 0]

\* BaseAI.expand_single_node(node), node being the table's object under key:
\* [tree, ret].
expand_single_node(tree, key) ==
    post_expansion(
        add_successors([tree EXCEPT ![key] = expand_node(@)],
                       expand_successors(tree[key]), 1,
                       [old |-> EmptyMap, new |-> EmptyMap]),
        key)

\* One entry of a call's record of node.expand() invocations.
Expanded(tree, key) == [key |-> key, was_expanded |-> tree[key].is_expanded]

\* The record of one invocation.  The record of a call is the bag of its
\* invocations: in what order a call makes them is not recorded.
LogOf(entry) == SetToBag({entry})

\* The last line of BaseAI.make_move, tree being the table then: [tree,
\* current, ok, log, post_move_size] (post_move_size is set by the pruning).
\* get_successor fails on a move the node has no successor for.
get_successor_of_current(tree, log, current, move) ==
    IF move \in DOMAIN Deref(tree, current).successors
    THEN [tree |-> tree, current |-> Deref(tree, current).successors[move],
          ok |-> TRUE, log |-> log, post_move_size |-> 0]
    ELSE [tree |-> tree, current |-> current, ok |-> FALSE, log |-> log,
          post_move_size |-> 0]

\* BaseAI.make_move
base_make_move(tree, current, move) ==
    IF ~Deref(tree, current).is_expanded
    THEN get_successor_of_current(expand_single_node(tree, current.key).tree,
                                  LogOf(Expanded(tree, current.key)), current, move)
    ELSE get_successor_of_current(tree, EmptyBag, current, move)

(***************************************************************************)
(* Expansion strategies.  Each step yields [tree, ret, log]: the table     *)
(* after the step, the value returned, and the bag of the node.expand()    *)
(* invocations made.  The loops visit the nodes of a set one by one; the   *)
(* table they end with does not depend on the order of the visits, which   *)
(* is the table's order in the code and is not modelled.                   *)
(***************************************************************************)
\* The result r of an expand_single_node call as the result of a step.
Logged(r, log) == [tree |-> r.tree, ret |-> r.ret, log |-> log]

\* The step expanding the current node whether it is expanded or not.
current_step_unguarded(tree, current) ==
    Logged(expand_single_node(tree, current.key),
           LogOf(Expanded(tree, current.key)))

\* CurrentStateExpansionMixin.step_search_tree_expansion
current_step(tree, current) ==
    IF Deref(tree, current).is_expanded
    THEN [tree |-> tree, ret |-> FALSE, log |-> EmptyBag]
    ELSE Logged(expand_single_node(tree, current.key),
                LogOf(Expanded(tree, current.key)))

\* The loop of OneStepSearchMixin.step_search_tree_expansion over the nodes
\* of unexpanded_nodes that are still to be visited; one_step_next is the
\* loop body after its expand_single_node call, whose result is r.
RECURSIVE one_step_loop(_, _, _, _)
RECURSIVE one_step_next(_, _, _, _, _)
\* The loop body collecting the unexpanded nodes again after every expansion.
one_step_next_rescanning(r, key, unexpanded_nodes, has_expanded, log) ==
    one_step_loop(r.tree, {k \in DOMAIN r.tree : ~r.tree[k].is_expanded},
                  has_expanded \/ r.ret, log)

one_step_loop(tree, unexpanded_nodes, has_expanded, log) ==
    IF unexpanded_nodes = {}
    THEN [tree |-> tree, ret |-> has_expanded, log |-> log]
    ELSE LET key == CHOOSE k \in unexpanded_nodes : TRUE
         IN  one_step_next(expand_single_node(tree, key), key,
                           unexpanded_nodes, has_expanded,
                           log (+) LogOf(Expanded(tree, key)))

one_step_next(r, key, unexpanded_nodes, has_expanded, log) ==
    IF r.ret
    THEN one_step_loop(r.tree, unexpanded_nodes \ {key}, TRUE, log)
    ELSE one_step_loop(r.tree, unexpanded_nodes \ {key}, has_expanded, log)

\* OneStepSearchMixin.step_search_tree_expansion
one_step(tree) ==
    one_step_loop(tree, {k \in DOMAIN tree : ~tree[k].is_expanded}, FALSE, EmptyBag)

(***************************************************************************)
(* Expansion control                                                       *)
(***************************************************************************)
\* The bounded step with a node limit that is exceeded only by a table
\* larger than the limit.
bounded_step_beyond_limit(inner, limit, timed_out) ==
    LET limit_exceeded ==
            \/ limit # 0 /\ Cardinality(DOMAIN inner.tree) > limit
            \/ timed_out
    IN  [inner EXCEPT !.ret = inner.ret /\ ~limit_exceeded]

\* BoundedExpansionMixin.step_search_tree_expansion around the result of the
\* wrapped step; timed_out says whether a configured time limit has elapsed.
bounded_step(inner, limit, timed_out) ==
    LET limit_exceeded ==
            \/ limit # 0 /\ Cardinality(DOMAIN inner.tree) >= limit
            \/ timed_out
    IN  [inner EXCEPT !.ret = inner.ret /\ ~limit_exceeded]

\* The loop condition holding only as long as no node at all is expanded.
NoneExpanded(tree) == \A k \in DOMAIN tree : ~tree[k].is_expanded

\* The loop condition of FullExpansionMixin.expand_search_tree.
AnyUnexpanded(tree) == \E k \in DOMAIN tree : ~tree[k].is_expanded

\* FullExpansionMixin.expand_search_tree over the one-step strategy, wrapped
\* in the bounded step when a node limit is configured: [tree, log, steps].
\* full_expand_next is the loop body after its step, whose result is r.
\* full_step is the step the loop calls: the one-step strategy's, inside the
\* bounded step.
full_step(tree, limit) == bounded_step(one_step(tree), limit, FALSE)

RECURSIVE full_expand(_, _, _, _)
RECURSIVE full_expand_next(_, _, _, _)
\* The loop body ending the loop when its step returns False.
full_expand_until_step_fails(r, limit, log, steps) ==
    IF r.ret THEN full_expand(r.tree, limit, log (+) r.log, steps + 1)
    ELSE [tree |-> r.tree, log |-> log (+) r.log, steps |-> steps + 1,
          layers |-> << >>]

full_expand(tree, limit, log, steps) ==
    IF AnyUnexpanded(tree)
    THEN full_expand_next(full_step(tree, limit), limit, log, steps)
    ELSE [tree |-> tree, log |-> log, steps |-> steps, layers |-> << >>]

full_expand_next(r, limit, log, steps) ==
    full_expand(r.tree, limit, log (+) r.log, steps + 1)

\* The table FullExpansionMixin.expand_search_tree ends with, layer by layer:
\* the unexpanded nodes are expanded, the successors that are not in the
\* table are added to it, and these are expanded in turn, until none is left.
\* FullExpansionIsClosure states that the loop of the mixin ends with it.
successor_states(game_state) ==
    {game_make_move(game_state, m) : m \in SeqRange(all_legal_moves(game_state))}

expanded_node(game_state) ==
    [state |-> game_state, is_expanded |-> TRUE,
     successors |-> [m \in SeqRange(all_legal_moves(game_state)) |->
                        Ref(node_key(game_make_move(game_state, m)), TRUE)]]

new_layer(tree, new_states) ==
    [k \in {node_key(s) : s \in new_states} |->
        SearchNode(CHOOSE s \in new_states : node_key(s) = k)]

\* The successor states of the nodes of the keys that are not in the table
new_successor_states(tree, keys) ==
    {s \in UNION {successor_states(tree[k].state) : k \in keys} :
        node_key(s) \notin DOMAIN tree}

\* The table after expand_single_node on each node of the keys, new_states
\* being the successor states that are not in the table.
expand_keys(tree, keys, new_states) ==
    [k \in DOMAIN tree |->
        IF k \in keys THEN expanded_node(tree[k].state) ELSE tree[k]]
    @@ new_layer(tree, new_states)

RECURSIVE expand_closure(_, _)
RECURSIVE expand_closure_next(_, _, _)
expand_closure(tree, keys) ==
    IF keys = {} THEN tree
    ELSE expand_closure_next(tree, keys, new_successor_states(tree, keys))

expand_closure_next(tree, keys, new_states) ==
    expand_closure(expand_keys(tree, keys, new_states),
                   {node_key(s) : s \in new_states})

FullyExpanded(tree) ==
    expand_closure(tree, {k \in DOMAIN tree : ~tree[k].is_expanded})

(***************************************************************************)
(* ForwardSweepingMixin                                                    *)
(***************************************************************************)
\* The loop of ForwardSweepingMixin.step_search_tree_expansion over the nodes
\* of current_layer_nodes still to be visited: [tree, next_layer, known_nodes,
\* log].  sweep_visit is the loop body after the node was expanded if needed.
RECURSIVE sweep_step_loop(_, _, _, _, _)
RECURSIVE sweep_visit(_, _, _, _, _, _)
sweep_step_loop(tree, layer_nodes, next_layer, known_nodes, log) ==
    IF layer_nodes = {}
    THEN [tree |-> tree, next_layer |-> next_layer,
          known_nodes |-> known_nodes, log |-> log]
    ELSE LET node == CHOOSE n \in layer_nodes : TRUE
         IN  IF ~Deref(tree, node).is_expanded
             THEN sweep_visit(expand_single_node(tree, node.key).tree, node,
                              layer_nodes, next_layer, known_nodes,
                              log (+) LogOf(Expanded(tree, node.key)))
             ELSE sweep_visit(tree, node, layer_nodes, next_layer,
                              known_nodes, log)

sweep_visit(tree, node, layer_nodes, next_layer, known_nodes, log) ==
    LET successors == get_successor_nodes(Deref(tree, node))
    IN  sweep_step_loop(tree, layer_nodes \ {node},
                        next_layer \cup (successors \ known_nodes),
                        known_nodes \cup successors, log)

\* The return of ForwardSweepingMixin.step_search_tree_expansion, r being
\* what its loop left: [tree, ret, next_layer, known_nodes, log]
sweep_step_return(r) ==
    [tree |-> r.tree, ret |-> Cardinality(r.next_layer) > 0,
     next_layer |-> r.next_layer, known_nodes |-> r.known_nodes,
     log |-> r.log]

\* ForwardSweepingMixin.step_search_tree_expansion
sweep_step(tree, current_layer_nodes, known_nodes, log) ==
    sweep_step_return(
        sweep_step_loop(tree, current_layer_nodes, {}, known_nodes, log))

\* The while loop of ForwardSweepingMixin.expand_search_tree; layers is the
\* sequence of the layers stepped so far: [tree, log, layers, steps,
\* next_layer, known_nodes], the last two being what the attributes of these
\* names are left with (current_layer_nodes is left as next_layer).
\* sweep_loop_next is the loop body after its step, whose result is r.
RECURSIVE sweep_loop(_, _, _, _, _, _, _, _)
RECURSIVE sweep_loop_next(_, _, _, _, _)
\* The loop body going on to the next layer whatever its step returned.
sweep_loop_next_without_abort(r, depth, limit, current_layer, layers) ==
    sweep_loop(r.tree, depth, limit, current_layer + 1,
               r.next_layer, r.known_nodes, r.log, layers)

\* The while loop running one layer more than the search depth.
sweep_loop_one_layer_more(tree, depth, limit, current_layer, layer_nodes, known_nodes, log, layers) ==
    IF current_layer <= depth
    THEN sweep_loop_next(
             bounded_step(sweep_step(tree, layer_nodes, known_nodes, log),
                          limit, FALSE),
             depth, limit, current_layer,
             Append(layers, layer_nodes))
    ELSE [tree |-> tree, log |-> log, layers |-> layers, steps |-> Len(layers),
          next_layer |-> layer_nodes, known_nodes |-> known_nodes]

sweep_loop(tree, depth, limit, current_layer, layer_nodes, known_nodes, log, layers) ==
    IF current_layer < depth
    THEN sweep_loop_next(
             bounded_step(sweep_step(tree, layer_nodes, known_nodes, log),
                          limit, FALSE),
             depth, limit, current_layer,
             Append(layers, layer_nodes))
    ELSE [tree |-> tree, log |-> log, layers |-> layers, steps |-> Len(layers),
          next_layer |-> layer_nodes, known_nodes |-> known_nodes]

sweep_loop_next(r, depth, limit, current_layer, layers) ==
    LET abort == ~r.ret
    IN  IF abort
        THEN [tree |-> r.tree, log |-> r.log, layers |-> layers,
              steps |-> Len(layers),
              next_layer |-> r.next_layer, known_nodes |-> r.known_nodes]
        ELSE sweep_loop(r.tree, depth, limit, current_layer + 1,
                        r.next_layer, r.known_nodes, r.log, layers)

\* ForwardSweepingMixin.expand_search_tree
sweep_expand(tree, current, depth, limit) ==
    sweep_loop(tree, depth, limit, 0, {current}, {current}, EmptyBag, << >>)

\* What the sweep ends with, each layer step taken at once: the unexpanded
\* nodes of the layer are expanded and the successors of the layer are
\* gathered.  SweepIsClosure states that the loops of the mixin end with it.
\* sweep_layer_step is the step: [tree, ret, next_layer, known_nodes].
sweep_unexpanded(tree, layer_nodes) ==
    {n.key : n \in {m \in layer_nodes : ~Deref(tree, m).is_expanded}}

sweep_gather(tree, known_nodes, successors) ==
    [tree |-> tree, ret |-> Cardinality(successors \ known_nodes) > 0,
     next_layer |-> successors \ known_nodes,
     known_nodes |-> known_nodes \cup successors]

sweep_gather_layer(tree, layer_nodes, known_nodes) ==
    sweep_gather(tree, known_nodes,
                 UNION {get_successor_nodes(Deref(tree, n)) : n \in layer_nodes})

\* The layer step that gathers the successors without expanding a node.
sweep_layer_step_without_expansion(tree, layer_nodes, known_nodes) ==
    sweep_gather_layer(tree, layer_nodes, known_nodes)

sweep_layer_step(tree, layer_nodes, known_nodes) ==
    sweep_gather_layer(
        expand_keys(tree, sweep_unexpanded(tree, layer_nodes),
                    new_successor_states(tree, sweep_unexpanded(tree, layer_nodes))),
        layer_nodes, known_nodes)

RECURSIVE sweep_closure(_, _, _, _, _, _)
RECURSIVE sweep_closure_next(_, _, _, _)
sweep_closure(tree, depth, limit, current_layer, layer_nodes, known_nodes) ==
    IF current_layer < depth
    THEN sweep_closure_next(
             bounded_step(sweep_layer_step(tree, layer_nodes, known_nodes),
                          limit, FALSE),
             depth, limit, current_layer)
    ELSE [tree |-> tree, next_layer |-> layer_nodes, known_nodes |-> known_nodes]

sweep_closure_next(r, depth, limit, current_layer) ==
    IF ~r.ret
    THEN [tree |-> r.tree, next_layer |-> r.next_layer,
          known_nodes |-> r.known_nodes]
    ELSE sweep_closure(r.tree, depth, limit, current_layer + 1,
                       r.next_layer, r.known_nodes)

\* [tree, next_layer, known_nodes]
SweptFrom(tree, current, depth, limit) ==
    sweep_closure(tree, depth, limit, 0, {current}, {current})

(***************************************************************************)
(* NaivePruningMixin                                                       *)
(***************************************************************************)
\* The frontier loop stopping at the successors of the frontier it starts
\* with.
transitive_hull_one_level(tree, frontier, transitive_hull) ==
    transitive_hull \cup frontier
       \cup UNION {get_successors(tree[k]) : k \in frontier}

\* The frontier loop of NaivePruningMixin.make_move.
RECURSIVE transitive_hull_loop(_, _, _)
transitive_hull_loop(tree, frontier, transitive_hull) ==
    IF frontier = {} THEN transitive_hull
    ELSE LET expansion == CHOOSE k \in frontier : TRUE
             hull == transitive_hull \cup {expansion}
         IN  transitive_hull_loop(
                 tree,
                 (frontier \ {expansion})
                    \cup {k \in get_successors(tree[expansion]) : k \notin hull},
                 hull)

\* The deletion of NaivePruningMixin.make_move: the table without the
\* nodes_to_delete.
delete_nodes(tree, transitive_hull) ==
    LET nodes_to_delete == DOMAIN tree \ transitive_hull
    IN  [k \in DOMAIN tree \ nodes_to_delete |-> tree[k]]

\* The pruning part of NaivePruningMixin.make_move.
prune(tree, current) ==
    delete_nodes(tree, transitive_hull_loop(tree, {current.key}, {}))

\* The hull the frontier loop ends with, layer by layer: the whole frontier
\* joins the hull at once and its successors outside the hull are the next
\* frontier.  HullIsClosure states that the loop ends with it.
RECURSIVE hull_closure(_, _, _)
hull_closure(tree, frontier, transitive_hull) ==
    IF frontier = {} THEN transitive_hull
    ELSE hull_closure(tree,
                      UNION {get_successors(tree[k]) : k \in frontier}
                         \ (transitive_hull \cup frontier),
                      transitive_hull \cup frontier)

\* NaivePruningMixin.make_move after its super().make_move(move), the hull
\* taken layer by layer.
pruned_after_move(r, pruning) ==
    IF pruning /\ r.ok
    THEN [r EXCEPT !.tree = delete_nodes(r.tree,
                                hull_closure(r.tree, {r.current.key}, {})),
                   !.post_move_size = Cardinality(DOMAIN r.tree)]
    ELSE r

\* NaivePruningMixin.make_move after its super().make_move(move), whose
\* result is r, when pruning is mixed in; r itself otherwise.  The super call
\* raising, nothing is pruned.
prune_after_move(r, pruning) ==
    IF pruning /\ r.ok
    THEN [r EXCEPT !.tree = prune(r.tree, r.current),
                   !.post_move_size = Cardinality(DOMAIN r.tree)]
    ELSE r

\* make_move of the composed engine: NaivePruningMixin.make_move when pruning
\* is mixed in, BaseAI.make_move otherwise.
make_move(tree, current, move, pruning) ==
    prune_after_move(base_make_move(tree, current, move), pruning)

(***************************************************************************)
(* The attributes of the forward sweep, and its step called on them        *)
(*                                                                         *)
(* expand_search_tree sets current_layer_nodes, next_layer and known_nodes *)
(* on the engine, and its last statement leaves current_layer_nodes as the *)
(* very set object next_layer: [has_layers, next_layer, known_nodes,       *)
(* detached], next_layer being that one set.  The sets hold node objects,  *)
(* not keys, so a node that the pruning deletes from the table stays in    *)
(* them; detached maps the references to such nodes to the nodes.          *)
(***************************************************************************)
\* ForwardSweepingMixin.__init__ sets search_depth only: the engine has none
\* of the three attributes before its first expand_search_tree call.
NoLayers ==
    [has_layers |-> FALSE, next_layer |-> {}, known_nodes |-> {},
     detached |-> EmptyMap]

\* The attributes as expand_search_tree leaves them, r being what its loop
\* left.  Every node of the new sets is resident.
Layers(r) ==
    [has_layers |-> TRUE, next_layer |-> r.next_layer,
     known_nodes |-> r.known_nodes, detached |-> EmptyMap]

\* The reference to a node object deleted from the table, the n-th such
\* object of its key.
DetachedRef(key, n) == [key |-> key, in_tree |-> FALSE, n |-> n]

\* The node object a reference held by the attributes denotes.
layer_node(tree, detached, ref) ==
    IF ref \in DOMAIN detached THEN detached[ref] ELSE tree[ref.key]

\* The keys of the deleted nodes that can be reached from the frontier through
\* the successors of deleted nodes.
RECURSIVE held_closure(_, _, _, _)
held_closure(tree, deleted, frontier, held) ==
    IF frontier = {} THEN held
    ELSE held_closure(tree, deleted,
                      (UNION {get_successors(tree[k]) : k \in frontier}
                          \cap deleted) \ (held \cup frontier),
                      held \cup frontier)

\* The attributes after the deletion of NaivePruningMixin.make_move took the
\* table from before to after: `del self.search_tree[node]` removes the table
\* entry, and the node objects the attributes hold, or reach through
\* successors, live on outside the table.
detach(sw, before, after) ==
    LET deleted == DOMAIN before \ DOMAIN after
        refs == sw.next_layer \cup sw.known_nodes
                  \cup UNION {get_successor_nodes(sw.detached[d]) :
                                 d \in DOMAIN sw.detached}
        held == held_closure(before, deleted,
                             {r.key : r \in {x \in refs : x.in_tree /\ x.key \in deleted}},
                             {})
        gone(key) ==
            DetachedRef(key, 1 + Cardinality({d \in DOMAIN sw.detached : d.key = key}))
        moved(ref) == IF ref.in_tree /\ ref.key \in held THEN gone(ref.key) ELSE ref
        kept(node) ==
            [node EXCEPT !.successors = [m \in DOMAIN node.successors |->
                                           moved(node.successors[m])]]
    IN  [sw EXCEPT
           !.next_layer = {moved(r) : r \in sw.next_layer},
           !.known_nodes = {moved(r) : r \in sw.known_nodes},
           !.detached = [d \in DOMAIN sw.detached \cup {gone(k) : k \in held} |->
                           IF d \in DOMAIN sw.detached THEN kept(sw.detached[d])
                           ELSE kept(before[d.key])]]

\* expand_single_node(node) for a node deleted from the table, s being the
\* state of the step: the successors are added to the table as for any node.
expand_detached_node(s, ref) ==
    LET r == add_successors(s.tree, expand_successors(s.detached[ref]), 1,
                            [old |-> EmptyMap, new |-> EmptyMap])
    IN  [s EXCEPT
           !.tree = r.tree,
           !.detached = [@ EXCEPT ![ref] =
                           post_expansion_insertion(expand_node(@), r.old, r.new)]]

\* The first statement of the loop body of the step: the node is expanded
\* unless it is already.
sweep_expand_unexpanded(s, ref) ==
    IF layer_node(s.tree, s.detached, ref).is_expanded THEN s
    ELSE [(IF ref \in DOMAIN s.detached
           THEN expand_detached_node(s, ref)
           ELSE [s EXCEPT !.tree = expand_single_node(s.tree, ref.key).tree])
            EXCEPT !.log = @ (+) LogOf([key |-> ref.key, was_expanded |-> FALSE])]

\* The loop body of ForwardSweepingMixin.step_search_tree_expansion for one
\* node of the set it iterates, on s = [tree, detached, next_layer,
\* known_nodes, log].
sweep_body(s, ref) ==
    LET e == sweep_expand_unexpanded(s, ref)
        successors == get_successor_nodes(layer_node(e.tree, e.detached, ref))
    IN  [e EXCEPT !.next_layer = @ \cup (successors \ e.known_nodes),
                  !.known_nodes = @ \cup successors]

\* The step returning, or raising, with s.
sweep_returns(s) ==
    [tree |-> s.tree, ret |-> Cardinality(s.next_layer) > 0, raised |-> "",
     log |-> s.log,
     sweep |-> [has_layers |-> TRUE, next_layer |-> s.next_layer,
                known_nodes |-> s.known_nodes, detached |-> s.detached]]

sweep_raises(s, error) == [sweep_returns(s) EXCEPT !.ret = FALSE, !.raised = error]

\* The for loop of the step called from outside, in every order in which the
\* set may yield the nodes still to come: the set of the results.  The set
\* iterated is the set the body adds to, and the iterator raises when it is
\* asked for the next node of a set whose size has changed.
RECURSIVE sweep_iterate(_, _, _)
sweep_iterate(s, size, to_come) ==
    IF Cardinality(s.next_layer) # size
    THEN {sweep_raises(s, "RuntimeError")}
    ELSE IF to_come = {} THEN {sweep_returns(s)}
    ELSE UNION {sweep_iterate(sweep_body(s, node), size, to_come \ {node}) :
                   node \in to_come}

\* The for loop over nodes none of which adds to the set, in any order.
RECURSIVE sweep_bodies(_, _)
sweep_bodies(s, nodes) ==
    IF nodes = {} THEN s
    ELSE LET node == CHOOSE n \in nodes : TRUE
         IN  sweep_bodies(sweep_body(s, node), nodes \ {node})

\* The results of sweep_iterate, by the node whose body adds to the set, if
\* one does: the nodes that come before it are any of those that add nothing,
\* of which the unexpanded ones are expanded.  SweepStepIsIteration states
\* that these are the results of the loop.
sweep_iteration_results(s) ==
    LET adding == {n \in s.next_layer :
                      sweep_body(s, n).next_layer # s.next_layer}
        idle == {n \in s.next_layer \ adding :
                    ~layer_node(s.tree, s.detached, n).is_expanded}
    IN  IF adding = {} THEN {sweep_returns(sweep_bodies(s, s.next_layer))}
        ELSE {sweep_raises(sweep_body(sweep_bodies(s, before), n), "RuntimeError") :
                 n \in adding, before \in SUBSET idle}

\* ForwardSweepingMixin.step_search_tree_expansion called from outside
\* expand_search_tree: the set of its results [tree, ret, raised, log, sweep].
\* Without the attributes the first attribute access raises.
sweep_step_called(tree, sw) ==
    IF ~sw.has_layers
    THEN {[tree |-> tree, ret |-> FALSE, raised |-> "AttributeError",
           log |-> EmptyBag, sweep |-> sw]}
    ELSE sweep_iteration_results(
             [tree |-> tree, detached |-> sw.detached,
              next_layer |-> sw.next_layer, known_nodes |-> sw.known_nodes,
              log |-> EmptyBag])

(***************************************************************************)
(* The engine: its state, its construction and its public calls            *)
(***************************************************************************)
VARIABLES
    search_tree,     \* BaseAI.search_tree: node key -> node
    current_state,   \* BaseAI.current_state: reference to the current node
    mixins,          \* the mixin classes the engine class is composed of
    node_limit,      \* BoundedExpansionMixin.node_limit (0: no limit)
    time_limit,      \* BoundedExpansionMixin.time_limit (0: no limit)
    scores,          \* SearchNode.score of the resident nodes: node key -> score
                     \* of each player; kept by the playing engines only
    search_depth,    \* ForwardSweepingMixin.search_depth (0: not sweeping)
    sweep,           \* the attributes ForwardSweepingMixin.expand_search_tree sets
                     \* on the engine, and the node objects they hold on to
    direct_steps,    \* how often step_search_tree_expansion() was called from
                     \* outside on a sweeping engine
    last,            \* the last call made on the engine: arguments and results
    call             \* the expand_search_tree call in progress, if any

vars == << search_tree, current_state, mixins, node_limit, time_limit, scores, search_depth,
           sweep, direct_steps, last, call >>

\* A game played to a draw; the engine is constructed on a position of it.
Opening ==
    << <<1, 0>>, <<2, 0>>, <<2, 2>>, <<1, 2>>, <<0, 1>>,
       <<1, 1>>, <<0, 2>>, <<0, 0>>, <<2, 1>> >>

RECURSIVE PositionAfter(_)
PositionAfter(n) ==
    IF n = 0 THEN starting_state
    ELSE game_make_move(PositionAfter(n - 1), Opening[n])

StartStates == {PositionAfter(n) : n \in (9 - MaxEmpty) .. 9}

\* The compositions of expansion strategy, expansion control and pruning.
Compositions ==
    LET expansions == { {"CurrentStateExpansionMixin"},
                        {"OneStepSearchMixin"},
                        {"FullExpansionMixin", "OneStepSearchMixin"},
                        {"BoundedExpansionMixin", "FullExpansionMixin",
                         "OneStepSearchMixin"},
                        {"ForwardSweepingMixin"} }
    IN  expansions \cup {e \cup {"NaivePruningMixin"} : e \in expansions}

\* What a call records of itself, before its results are filled in.
Call(op) ==
    [op |-> op, move |-> << >>, node |-> << >>, ret |-> FALSE, raised |-> "",
     timed_out |-> FALSE,
     log |-> EmptyBag, layers |-> << >>, steps |-> 0, post_move_size |-> 0]

\* No expand_search_tree call is in progress.
Idle == [pc |-> "idle"]

\* BaseAI.__init__ (and the __init__ of the configuring mixins)
Init ==
    \E state \in StartStates, composition \in Compositions :
       /\ mixins = composition
       /\ node_limit \in IF "BoundedExpansionMixin" \in composition
                         THEN {NodeLimit} ELSE {0}
       /\ time_limit = 0
       /\ scores = EmptyMap
       /\ sweep = NoLayers
       /\ direct_steps = 0
       /\ search_depth \in IF "ForwardSweepingMixin" \in composition
                           THEN 1 .. MaxDepth ELSE {0}
       /\ search_tree = add_node(EmptyMap, SearchNode(state)).tree
       /\ current_state = Ref(node_key(state), TRUE)
       /\ last = Call("init")
       /\ call = Idle

\* BoundedExpansionMixin.step_search_tree_expansion around the wrapped step's
\* result when it is mixed in, the wrapped step's result otherwise.
bounded_if_mixed_in(inner) ==
    IF "BoundedExpansionMixin" \in mixins
    THEN bounded_step(inner, node_limit, FALSE)
    ELSE inner

\* step_search_tree_expansion of the composed engine, by method resolution
\* order: the strategy's step, inside the bounded step when that is mixed in.
step_search_tree_expansion(tree, current) ==
    bounded_if_mixed_in(IF "CurrentStateExpansionMixin" \in mixins
                        THEN current_step(tree, current)
                        ELSE one_step(tree))

\* BaseAI.expand_search_tree: one step, its return value dropped.
base_expand(r) ==
    [tree |-> r.tree, log |-> r.log, layers |-> << >>, steps |-> 1]

\* expand_search_tree of the composed engine, by method resolution order:
\* FullExpansionMixin's, ForwardSweepingMixin's or BaseAI's.
expand_search_tree(tree, current) ==
    IF "FullExpansionMixin" \in mixins
    THEN full_expand(tree, node_limit, EmptyBag, 0)
    ELSE IF "ForwardSweepingMixin" \in mixins
    THEN sweep_expand(tree, current, search_depth, node_limit)
    ELSE base_expand(step_search_tree_expansion(tree, current))

\* The attributes after expand_search_tree of the composed engine, whose
\* result is r.
layers_after_expand(sw, r) ==
    IF "FullExpansionMixin" \in mixins THEN sw
    ELSE IF "ForwardSweepingMixin" \in mixins THEN Layers(r)
    ELSE sw

StepReturns(r) ==
    /\ search_tree' = r.tree
    /\ last' = [Call("step")
                  EXCEPT !.ret = r.ret, !.log = r.log, !.steps = 1]
    /\ UNCHANGED << current_state, mixins, node_limit, time_limit, search_depth, call, scores, sweep, direct_steps >>

\* The step of a sweeping engine returns or raises; a raise passes through
\* the bounded step.
SweepStepReturns(r) ==
    /\ search_tree' = r.tree
    /\ sweep' = r.sweep
    /\ direct_steps' = direct_steps + 1
    /\ last' = [Call("step")
                  EXCEPT !.ret = r.ret, !.raised = r.raised, !.log = r.log,
                         !.steps = 1]
    /\ UNCHANGED << current_state, mixins, node_limit, time_limit, search_depth, call, scores >>

\* A call of step_search_tree_expansion()
Step ==
    /\ call.pc = "idle"
    /\ IF "ForwardSweepingMixin" \in mixins
       THEN /\ direct_steps < MaxDirectSteps
            /\ \E r \in sweep_step_called(search_tree, sweep) :
                  SweepStepReturns(IF r.raised = "" THEN bounded_if_mixed_in(r)
                                   ELSE r)
       ELSE StepReturns(step_search_tree_expansion(search_tree, current_state))

ExpandReturns(r) ==
    /\ search_tree' = r.tree
    /\ sweep' = layers_after_expand(sweep, r)
    /\ last' = [Call("expand")
                  EXCEPT !.log = r.log, !.layers = r.layers, !.steps = r.steps]
    /\ UNCHANGED << current_state, mixins, node_limit, time_limit, search_depth, call, scores, direct_steps >>

\* A call of expand_search_tree()
ExpandSearchTree ==
    /\ call.pc = "idle"
    /\ ExpandReturns(expand_search_tree(search_tree, current_state))

MakeMoveReturns(r, move) ==
    /\ search_tree' = r.tree
    /\ current_state' = r.current
    /\ sweep' = detach(sweep, base_make_move(search_tree, current_state, move).tree,
                       r.tree)
    /\ last' = [Call("make_move")
                  EXCEPT !.move = move, !.log = r.log,
                         !.post_move_size = r.post_move_size,
                         !.raised = IF r.ok THEN "" ELSE "IllegalMoveError"]
    /\ UNCHANGED << mixins, node_limit, time_limit, search_depth, call, scores, direct_steps >>

\* A call of make_move(move)
MakeMove(move) ==
    /\ call.pc = "idle"
    /\ MakeMoveReturns(make_move(search_tree, current_state, move,
                    "NaivePruningMixin" \in mixins), move)

\* The moves make_move is called with on a position: every legal move, and as
\* illegal ones the first occupied cell and, the game being finished, the
\* first empty cell.
First(cells) ==
    IF cells = {} THEN {}
    ELSE {CoordList[CHOOSE i \in 1 .. 9 :
                       /\ CoordList[i] \in cells
                       /\ \A j \in 1 .. i - 1 : CoordList[j] \notin cells]}

MoveInputs(game_state) ==
    LET empty == {c \in Coords : game_state.board[c] = None}
    IN  IF is_finished(game_state)
        THEN First(empty) \cup First(Coords \ empty)
        ELSE empty \cup First(Coords \ empty)

\* The calls made on an engine.
Next ==
    \/ Step
    \/ ExpandSearchTree
    \/ \E move \in MoveInputs(Deref(search_tree, current_state).state) :
          MakeMove(move)

\* The calls made on an engine whose expand_search_tree is the only caller
\* of the step of the forward sweep.
NextSweptByExpand ==
    \/ "ForwardSweepingMixin" \notin mixins /\ Step
    \/ ExpandSearchTree
    \/ \E move \in MoveInputs(Deref(search_tree, current_state).state) :
          MakeMove(move)

Spec == Init /\ [][NextSweptByExpand]_vars

(***************************************************************************)
(* The engine of every composition under every call of Next, the step of   *)
(* the forward sweep called from outside included; the forward sweep is    *)
(* also composed with the Bounded control.                                 *)
(***************************************************************************)
CallCompositions ==
    Compositions \cup { {"BoundedExpansionMixin", "ForwardSweepingMixin"} }

InitCalls ==
    \E state \in {PositionAfter(n) : n \in (9 - MaxStepEmpty) .. 9},
       composition \in CallCompositions :
       /\ mixins = composition
       /\ node_limit \in IF "BoundedExpansionMixin" \in composition
                         THEN {NodeLimit} ELSE {0}
       /\ time_limit = 0
       /\ scores = EmptyMap
       /\ sweep = NoLayers
       /\ direct_steps = 0
       /\ search_depth \in IF "ForwardSweepingMixin" \in composition
                           THEN 1 .. MaxDepth ELSE {0}
       /\ search_tree = add_node(EmptyMap, SearchNode(state)).tree
       /\ current_state = Ref(node_key(state), TRUE)
       /\ last = Call("init")
       /\ call = Idle

SpecCalls == InitCalls /\ [][Next]_vars

(***************************************************************************)
(* The engine with add_node called from outside as well                    *)
(***************************************************************************)
AddNodeReturns(r, node) ==
    /\ search_tree' = r.tree
    /\ last' = [Call("add_node") EXCEPT !.ret = r.is_new, !.node = << node >>]
    /\ UNCHANGED << current_state, mixins, node_limit, time_limit, search_depth, call, scores, sweep, direct_steps >>

\* A call of add_node(node)
AddNode(node) ==
    /\ call.pc = "idle"
    /\ AddNodeReturns(add_node(search_tree, node), node)

\* The nodes add_node is called with: a freshly constructed node for every
\* successor state of the current node; a copy of the current node and of
\* each of its resident successors; and, for every resident successor of the
\* current node's state, a node of the current node's state that knows just
\* that successor.
AddNodeInputs(tree, current) ==
    LET node == Deref(tree, current)
        moves == SeqRange(all_legal_moves(node.state))
        key_after(m) == node_key(game_make_move(node.state, m))
    IN  {SearchNode(game_make_move(node.state, m)) : m \in moves}
           \cup {tree[k] : k \in {current.key} \cup get_successors(node)}
           \cup {[SearchNode(node.state) EXCEPT
                    !.successors = Put(EmptyMap, m, Ref(key_after(m), TRUE))] :
                 m \in {x \in moves : key_after(x) \in DOMAIN tree}}

ExpandSingleNodeReturns(r, key) ==
    /\ search_tree' = r.tree
    /\ last' = [Call("expand_single_node")
                  EXCEPT !.ret = r.ret, !.node = << search_tree[key] >>,
                         !.log = LogOf(Expanded(search_tree, key))]
    /\ UNCHANGED << current_state, mixins, node_limit, time_limit, search_depth, call, scores, sweep, direct_steps >>

\* A call of expand_single_node(node) from outside, on a resident node
ExpandSingleNode(key) ==
    /\ call.pc = "idle"
    /\ ExpandSingleNodeReturns(expand_single_node(search_tree, key), key)

\* The nodes expand_single_node is called with from outside: the current
\* node and its successor by the first legal move, when it has one.
ExpandSingleNodeInputs(tree, current) ==
    LET node == Deref(tree, current)
        moves == all_legal_moves(node.state)
    IN  {current.key}
           \cup {node.successors[m].key :
                    m \in {x \in DOMAIN node.successors : x = Head(moves)}}

NextAdd ==
    \/ Next
    \/ \E node \in AddNodeInputs(search_tree, current_state) : AddNode(node)
    \/ \E key \in ExpandSingleNodeInputs(search_tree, current_state) :
          ExpandSingleNode(key)

\* The engines that expand the current node only, with or without pruning.
InitAdd ==
    /\ Init
    /\ mixins \ {"NaivePruningMixin"} = {"CurrentStateExpansionMixin"}

SpecAdd == InitAdd /\ [][NextAdd]_vars

\* The nodes of the successor states of the current node, freshly constructed.
FreshSuccessors(tree, current) ==
    {SearchNode(game_make_move(Deref(tree, current).state, m)) :
        m \in SeqRange(all_legal_moves(Deref(tree, current).state))}

\* The pruning engine whose step expands every unexpanded node; nodes of
\* successor states are added from outside as well.
InitSeeded ==
    /\ Init
    /\ mixins = {"OneStepSearchMixin", "NaivePruningMixin"}

NextSeeded ==
    \/ Next
    \/ \E node \in FreshSuccessors(search_tree, current_state) : AddNode(node)

SpecSeeded == InitSeeded /\ [][NextSeeded]_vars

(***************************************************************************)
(* FullExpansionMixin.expand_search_tree iteration by iteration.  While a  *)
(* call is running, call holds: entry, the states resident when it was     *)
(* made; steps, the iterations run; expansion_happened, the local          *)
(* variable; step_ret, what the last step returned; size_before, the size  *)
(* of the table before the last step; log, the expansions made.            *)
(***************************************************************************)
InitFull ==
    /\ Init
    /\ "FullExpansionMixin" \in mixins

\* expand_search_tree() is called: the local variable is initialised.
FullCall ==
    /\ call.pc = "idle"
    /\ call' = [pc |-> "loop",
                entry |-> {search_tree[k].state : k \in DOMAIN search_tree},
                steps |-> 0, expansion_happened |-> FALSE, step_ret |-> FALSE,
                size_before |-> Cardinality(DOMAIN search_tree), log |-> EmptyBag]
    /\ UNCHANGED << search_tree, current_state, mixins, node_limit, time_limit,
                    search_depth, last, scores, sweep, direct_steps >>

\* The loop body leaving the loop when the step returns false.
full_iteration_until_step_fails(c, r, size) ==
    [c EXCEPT !.pc = IF r.ret THEN "loop" ELSE "idle",
              !.steps = @ + 1,
              !.expansion_happened = r.ret \/ @,
              !.step_ret = r.ret,
              !.size_before = size,
              !.log = @ (+) r.log]

\* The body of the while loop, r being the result of its step and size the
\* size of the table before it: the call c after the iteration.
full_iteration(c, r, size) ==
    [c EXCEPT !.steps = @ + 1,
              !.expansion_happened = r.ret \/ @,
              !.step_ret = r.ret,
              !.size_before = size,
              !.log = @ (+) r.log]

FullIterateReturns(r) ==
    /\ search_tree' = r.tree
    /\ call' = full_iteration(call, r, Cardinality(DOMAIN search_tree))
    /\ UNCHANGED << current_state, mixins, node_limit, time_limit, search_depth, last, scores, sweep, direct_steps >>

\* One iteration of the while loop: the condition holds, the step is run.
FullIterate ==
    /\ call.pc = "loop"
    /\ AnyUnexpanded(search_tree)
    /\ FullIterateReturns(step_search_tree_expansion(search_tree, current_state))

\* The loop condition fails: expand_search_tree returns.
FullReturn ==
    /\ call.pc = "loop"
    /\ ~AnyUnexpanded(search_tree)
    /\ call' = Idle
    /\ last' = [Call("expand") EXCEPT !.log = call.log, !.steps = call.steps]
    /\ UNCHANGED << search_tree, current_state, mixins, node_limit, time_limit,
                    search_depth, scores, sweep, direct_steps >>

NextFull ==
    \/ \E move \in MoveInputs(Deref(search_tree, current_state).state) :
          MakeMove(move)
    \/ FullCall
    \/ FullIterate
    \/ FullReturn

\* Weak fairness of FullIterate, WF_vars(FullIterate), with what enables the
\* action written out: an iteration always counts itself in call.steps, so
\* FullIterate is enabled exactly when a call is running and the loop
\* condition holds.
FullIterateFair ==
    <>[](call.pc = "loop" /\ AnyUnexpanded(search_tree))
       => []<><<FullIterate>>_vars

\* A call that is running runs on: the engine is single-threaded and
\* synchronous.
SpecFull ==
    /\ InitFull
    /\ [][NextFull]_vars
    /\ FullIterateFair
    /\ WF_vars(FullReturn)

(***************************************************************************)
(* BoundedExpansionMixin over an expansion strategy, with node and time    *)
(* limits configured or not.                                               *)
(***************************************************************************)
\* The time limit a bounded engine is configured with, when it has one.
TimeLimit == 1

InitBounded ==
    \E state \in StartStates :
       /\ mixins \in { {"BoundedExpansionMixin", "CurrentStateExpansionMixin"},
                       {"BoundedExpansionMixin", "OneStepSearchMixin"} }
       /\ node_limit \in {0, NodeLimit}
       /\ time_limit \in {0, TimeLimit}
       /\ scores = EmptyMap
       /\ sweep = NoLayers
       /\ direct_steps = 0
       /\ search_depth = 0
       /\ search_tree = add_node(EmptyMap, SearchNode(state)).tree
       /\ current_state = Ref(node_key(state), TRUE)
       /\ last = Call("init")
       /\ call = Idle

\* super().step_search_tree_expansion() in the bounded step: the step of the
\* strategy mixed in.
inner_step(tree, current) ==
    IF "CurrentStateExpansionMixin" \in mixins
    THEN current_step(tree, current)
    ELSE one_step(tree)

\* Whether the time the wrapped step took reached the time limit: it cannot
\* without a time limit, and may or may not with one.
TimedOut == IF time_limit = 0 THEN {FALSE} ELSE BOOLEAN

BoundedStepReturns(r, timed_out) ==
    /\ search_tree' = r.tree
    /\ last' = [Call("step") EXCEPT !.ret = r.ret, !.log = r.log, !.steps = 1,
                                    !.timed_out = timed_out]
    /\ UNCHANGED << current_state, mixins, node_limit, time_limit, search_depth, call, scores, sweep, direct_steps >>

\* A call of step_search_tree_expansion() on a bounded engine
BoundedStep(timed_out) ==
    /\ call.pc = "idle"
    /\ BoundedStepReturns(
          bounded_step(inner_step(search_tree, current_state), node_limit, timed_out),
          timed_out)

NextBounded ==
    \/ \E timed_out \in TimedOut : BoundedStep(timed_out)
    \/ \E move \in MoveInputs(Deref(search_tree, current_state).state) :
          MakeMove(move)

SpecBounded == InitBounded /\ [][NextBounded]_vars

(***************************************************************************)
(* The engine of the Bounded control over the forward sweep, with a node   *)
(* limit and without pruning, under the calls of Next.                     *)
(***************************************************************************)
InitSweepBounded ==
    \E state \in StartStates :
       /\ mixins = {"BoundedExpansionMixin", "ForwardSweepingMixin"}
       /\ node_limit \in {NodeLimit - 1, NodeLimit}
       /\ time_limit = 0
       /\ scores = EmptyMap
       /\ sweep = NoLayers
       /\ direct_steps = 0
       /\ search_depth \in 1 .. MaxDepth + 1
       /\ search_tree = add_node(EmptyMap, SearchNode(state)).tree
       /\ current_state = Ref(node_key(state), TRUE)
       /\ last = Call("init")
       /\ call = Idle

\* The calls made on the sweeping engine, whose step is only called by its
\* expand_search_tree.
NextSweepBounded ==
    \/ ExpandSearchTree
    \/ \E move \in MoveInputs(Deref(search_tree, current_state).state) :
          MakeMove(move)

SpecSweepBounded == InitSweepBounded /\ [][NextSweepBounded]_vars

(***************************************************************************)
(* BaseAI.play: the engine playing both sides from the starting state,     *)
(* one action for choose_move and one for make_move in each iteration of   *)
(* its loop.  The engine expands fully (Full over the one-step strategy),  *)
(* scores by minimax and selects a best move, first or any.                *)
(***************************************************************************)
Selections == { {"ChooseFirstMoveMixin"}, {"ChooseRandomMoveFromBestMixin"} }

PlayCompositions ==
    { {"FullExpansionMixin", "OneStepSearchMixin", "ChooseFirstMoveMixin"},
      {"FullExpansionMixin", "OneStepSearchMixin", "NaivePruningMixin",
       "ChooseFirstMoveMixin"},
      {"FullExpansionMixin", "OneStepSearchMixin", "NaivePruningMixin",
       "ChooseRandomMoveFromBestMixin"} }

InitPlay ==
    /\ mixins \in PlayCompositions
    /\ node_limit = 0
    /\ time_limit = 0
    /\ search_depth = 0
    /\ search_tree = add_node(EmptyMap, SearchNode(starting_state)).tree
    /\ scores = score_all(search_tree, EmptyMap)
    /\ sweep = NoLayers
    /\ direct_steps = 0
    /\ current_state = Ref(node_key(starting_state), TRUE)
    /\ last = Call("init")
    /\ call = Idle

\* A call of play()
Play ==
    /\ call.pc = "idle"
    /\ call' = [pc |-> "play", moves |-> 0]
    /\ UNCHANGED << search_tree, current_state, mixins, node_limit, time_limit,
                    search_depth, scores, last, sweep, direct_steps >>

\* expand_search_tree as choose_move calls it
play_expand(tree, current) ==
    IF "FullExpansionMixin" \in mixins THEN [tree |-> FullyExpanded(tree)]
    ELSE IF "ForwardSweepingMixin" \in mixins
    THEN SweptFrom(tree, current, search_depth, node_limit)
    ELSE expand_search_tree(tree, current)

\* The loop of play: choose_move, under a current state that is not finished
ChooseMove ==
    /\ call.pc = "play"
    /\ ~_is_finished(search_tree[current_state.key])
    /\ \E r \in {play_expand(search_tree, current_state)} :
          /\ search_tree' = r.tree
          /\ sweep' = layers_after_expand(sweep, r)
    /\ scores' = IF search_tree' = search_tree THEN scores
                 ELSE score_all(search_tree', EmptyMap)
    /\ \E move \in find_best_move(scores', search_tree'[current_state.key], mixins) :
          /\ call' = [pc |-> "chosen", move |-> move, moves |-> call.moves]
          /\ last' = [Call("choose_move") EXCEPT !.move = move]
    /\ UNCHANGED << current_state, mixins, node_limit, time_limit, search_depth, direct_steps >>

\* The loop of play: make_move with the chosen move
CommitMoveReturns(r) ==
    /\ search_tree' = r.tree
    /\ current_state' = r.current
    /\ sweep' = detach(sweep, base_make_move(search_tree, current_state, call.move).tree,
                       r.tree)
    /\ scores' = [k \in DOMAIN r.tree |-> scores[k]]
    /\ call' = IF r.ok THEN [pc |-> "play", moves |-> call.moves + 1] ELSE Idle
    /\ last' = [Call("make_move")
                  EXCEPT !.move = call.move, !.log = r.log,
                         !.post_move_size = r.post_move_size,
                         !.raised = IF r.ok THEN "" ELSE "IllegalMoveError"]
    /\ UNCHANGED << mixins, node_limit, time_limit, search_depth, direct_steps >>

CommitMove ==
    /\ call.pc = "chosen"
    /\ CommitMoveReturns(pruned_after_move(
           base_make_move(search_tree, current_state, call.move),
           "NaivePruningMixin" \in mixins))

\* The loop of play ends: the current state is finished
PlayReturns ==
    /\ call.pc = "play"
    /\ _is_finished(search_tree[current_state.key])
    /\ call' = Idle
    /\ last' = [Call("play") EXCEPT !.steps = call.moves]
    /\ UNCHANGED << search_tree, current_state, mixins, node_limit, time_limit,
                    search_depth, scores, sweep, direct_steps >>

NextPlay ==
    \/ Play
    \/ ChooseMove
    \/ CommitMove
    \/ PlayReturns

SpecPlay == InitPlay /\ [][NextPlay]_vars

(***************************************************************************)
(* examples/tictactoe.py: the Bounded control with a node limit of 100     *)
(* over the forward sweep of depth 5, with pruning, selecting any of the   *)
(* best moves; ai.play() from the starting state.                          *)
(***************************************************************************)
ExampleSearchDepth == 5
ExampleNodeLimit == 100

InitExample ==
    /\ mixins = {"BoundedExpansionMixin", "ForwardSweepingMixin",
                 "NaivePruningMixin", "ChooseRandomMoveFromBestMixin"}
    /\ node_limit = ExampleNodeLimit
    /\ time_limit = 0
    /\ search_depth = ExampleSearchDepth
    /\ search_tree = add_node(EmptyMap, SearchNode(starting_state)).tree
    /\ scores = score_all(search_tree, EmptyMap)
    /\ sweep = NoLayers
    /\ direct_steps = 0
    /\ current_state = Ref(node_key(starting_state), TRUE)
    /\ last = Call("init")
    /\ call = Idle

\* The loop of play goes on: choose_move and make_move are taken when they
\* stay possible (the weak fairness of the two actions, each of which is
\* enabled exactly under its guard), and so are the call and the return.
\* The steps of ChooseMove are the steps of NextPlay from the loop to the
\* chosen move, the steps of CommitMove those that leave the chosen move.
ChooseMoveFair ==
    <>[](call.pc = "play" /\ ~_is_finished(search_tree[current_state.key]))
       => []<><<call.pc = "play" /\ call'.pc = "chosen">>_vars

CommitMoveFair ==
    <>[](call.pc = "chosen") => []<><<call.pc = "chosen" /\ call'.pc # "chosen">>_vars

SpecExample ==
    /\ InitExample /\ [][NextPlay]_vars
    /\ WF_vars(Play) /\ WF_vars(PlayReturns)
    /\ ChooseMoveFair /\ CommitMoveFair

(***************************************************************************)
(* Properties                                                              *)
(***************************************************************************)
Size(tree) == Cardinality(DOMAIN tree)

Mixed(mixin) == mixin \in mixins

\* The loops of ForwardSweepingMixin.expand_search_tree and of its step end
\* with the table and the attributes that SweptFrom gives.
SweepIsClosure ==
    [][ (last'.op = "expand" /\ Mixed("ForwardSweepingMixin"))
        => LET swept == SweptFrom(search_tree, current_state, search_depth,
                                  node_limit)
           IN  /\ search_tree' = swept.tree
               /\ sweep'.next_layer = swept.next_layer
               /\ sweep'.known_nodes = swept.known_nodes ]_vars

\* The loop of ForwardSweepingMixin.step_search_tree_expansion, called on the
\* attributes as they are, ends in every order of its iteration with one of
\* the results that sweep_iteration_results gives, and with each of them in
\* some order.
SweepStepIsIteration ==
    sweep.has_layers
       => LET s == [tree |-> search_tree, detached |-> sweep.detached,
                    next_layer |-> sweep.next_layer,
                    known_nodes |-> sweep.known_nodes, log |-> EmptyBag]
          IN  sweep_iteration_results(s)
                 = sweep_iterate(s, Cardinality(s.next_layer), s.next_layer)

\* The frontier loop of NaivePruningMixin.make_move ends with the hull that
\* hull_closure gives.
HullIsClosure ==
    [][ last'.op = "make_move"
        => \A k \in DOMAIN search_tree' :
              transitive_hull_loop(search_tree', {k}, {})
                 = hull_closure(search_tree', {k}, {}) ]_vars

\* The loop of FullExpansionMixin.expand_search_tree ends with the table that
\* FullyExpanded gives.
FullExpansionIsClosure ==
    [][ (last'.op = "expand" /\ Mixed("FullExpansionMixin"))
        => search_tree' = FullyExpanded(search_tree) ]_vars

\* C1: after any sequence of calls the table holds at most one node per
\* canonical key, and every entry is stored under the canonical key of the
\* node it holds.
C1_TableUniqueness ==
    /\ \A key \in DOMAIN search_tree : _node_key(search_tree[key]) = key
    /\ \A k1, k2 \in DOMAIN search_tree :
          _node_key(search_tree[k1]) = _node_key(search_tree[k2]) => k1 = k2

\* A node that two expanded resident nodes have as a successor: the second
\* expansion to produce it was merged.
C1_Witness ==
    \E k1, k2 \in DOMAIN search_tree :
       /\ k1 # k2
       /\ get_successors(search_tree[k1]) \cap get_successors(search_tree[k2]) # {}

\* C4: the key of the current node is resident in the table, and the table
\* entry under that key is the current node object.
C4_CurrentResident ==
    /\ current_state.key \in DOMAIN search_tree
    /\ current_state.in_tree

\* A move was committed and the pruning deleted nodes, leaving more than the
\* current node.
C4_Witness ==
    /\ last.op = "make_move"
    /\ last.raised = ""
    /\ Mixed("NaivePruningMixin")
    /\ last.post_move_size > Size(search_tree)
    /\ Size(search_tree) > 1

\* The keys reachable from keys through the successor edges of resident nodes.
RECURSIVE ReachableKeys(_, _)
ReachableKeys(tree, keys) ==
    LET next == keys \cup UNION {get_successors(tree[k]) : k \in keys \cap DOMAIN tree}
    IN  IF next = keys THEN keys ELSE ReachableKeys(tree, next)

\* C2: after make_move(M) with pruning, for a legal M, the current node is
\* the successor by M, the table's key set is exactly the set of keys
\* reachable from it through successor edges, the nodes kept are unchanged
\* unless expanded by the call, and the table is no larger than before.
C2_PruningExact ==
    [][ (last'.op = "make_move" /\ last'.raised = "" /\ Mixed("NaivePruningMixin"))
        => /\ current_state'.key =
                 node_key(game_make_move(Deref(search_tree, current_state).state,
                                         last'.move))
           /\ DOMAIN search_tree' = ReachableKeys(search_tree', {current_state'.key})
           /\ \A k \in DOMAIN search_tree' \cap DOMAIN search_tree :
                 k # current_state.key => search_tree'[k] = search_tree[k]
           /\ Size(search_tree') <= Size(search_tree) ]_vars

\* A pruning move that deleted nodes and kept nodes two edges away from the
\* new current node.
C2_Witness ==
    /\ last.op = "make_move"
    /\ last.raised = ""
    /\ Mixed("NaivePruningMixin")
    /\ last.post_move_size > Size(search_tree)
    /\ \E k \in get_successors(Deref(search_tree, current_state)) :
          get_successors(search_tree[k]) # {}

\* C3: make_move with an illegal move fails and leaves the table and the
\* current node as they were.
C3_IllegalMoveChangesNothing ==
    [][ (last'.op = "make_move" /\ last'.raised = "IllegalMoveError")
        => /\ search_tree' = search_tree
           /\ current_state' = current_state ]_vars

\* C5: add_node(n) returns true and grows the table by exactly the entry for
\* n iff n's key was absent; otherwise it returns false, keeps the key set,
\* leaves the resident node in place with its state and expansion status, and
\* makes its successor map the union of both maps; if n's content is that of
\* the resident node, the table is unchanged.
C5_AddNodeContract ==
    [][ last'.op = "add_node"
        => LET n == last'.node[1]
               key == _node_key(n)
           IN  /\ last'.ret <=> key \notin DOMAIN search_tree
               /\ \A k \in DOMAIN search_tree \ {key} :
                     k \in DOMAIN search_tree' /\ search_tree'[k] = search_tree[k]
               /\ last'.ret
                     => /\ DOMAIN search_tree' = DOMAIN search_tree \cup {key}
                        /\ Size(search_tree') = Size(search_tree) + 1
                        /\ search_tree'[key] = n
               /\ ~last'.ret
                     => /\ DOMAIN search_tree' = DOMAIN search_tree
                        /\ search_tree'[key].state = search_tree[key].state
                        /\ search_tree'[key].is_expanded = search_tree[key].is_expanded
                        /\ DOMAIN search_tree'[key].successors =
                              DOMAIN search_tree[key].successors \cup DOMAIN n.successors
                        /\ \A m \in DOMAIN search_tree[key].successors :
                              search_tree'[key].successors[m] =
                                 search_tree[key].successors[m]
                        /\ \A m \in DOMAIN n.successors \ DOMAIN search_tree[key].successors :
                              search_tree'[key].successors[m] = n.successors[m]
               /\ (~last'.ret /\ n = search_tree[key]) => search_tree' = search_tree
               /\ current_state' = current_state ]_vars

\* add_node merged a node into an unexpanded resident node, which learned a
\* successor from it.
C5_Witness ==
    /\ last.op = "add_node"
    /\ ~last.ret
    /\ LET n == last.node[1]
       IN  /\ DOMAIN n.successors # {}
           /\ ~search_tree[_node_key(n)].is_expanded
           /\ DOMAIN search_tree[_node_key(n)].successors = DOMAIN n.successors

\* add_node inserted a node.
C5_WitnessInserted ==
    /\ last.op = "add_node"
    /\ last.ret

\* add_node was called with a copy of an expanded resident node.
C5_WitnessIdentical ==
    /\ last.op = "add_node"
    /\ ~last.ret
    /\ last.node[1] = search_tree[_node_key(last.node[1])]
    /\ last.node[1].is_expanded

\* C6: one call of the step that expands every unexpanded node expands
\* exactly the nodes that were resident and unexpanded when the call started,
\* each once; the nodes first inserted during the call are unexpanded when it
\* returns; the nodes that were expanded before are left as they were.
C6_OneStepExpandsInitialUnexpanded ==
    [][ (last'.op = "step" /\ Mixed("OneStepSearchMixin"))
        => LET unexpanded == {k \in DOMAIN search_tree : ~search_tree[k].is_expanded}
               log == last'.log
           IN  /\ {i.key : i \in BagToSet(log)} = unexpanded
               /\ BagCardinality(log) = Cardinality(unexpanded)
               /\ \A i \in BagToSet(log) : ~i.was_expanded
               /\ \A k \in unexpanded :
                     /\ search_tree'[k].is_expanded
                     /\ DOMAIN search_tree'[k].successors =
                           SeqRange(all_legal_moves(search_tree[k].state))
               /\ \A k \in DOMAIN search_tree' \ DOMAIN search_tree :
                     ~search_tree'[k].is_expanded
               /\ \A k \in DOMAIN search_tree \ unexpanded :
                     search_tree'[k] = search_tree[k] ]_vars

\* A step expanded a node and a successor of it that was resident and
\* unexpanded when the step started, and inserted nodes that it left
\* unexpanded.
C6_Witness ==
    /\ last.op = "step"
    /\ Mixed("OneStepSearchMixin")
    /\ \E i, j \in BagToSet(last.log) :
          j.key \in get_successors(search_tree[i.key])
    /\ \E k \in DOMAIN search_tree : ~search_tree[k].is_expanded

\* Whether the node has not been expanded and its state has a legal move.
Expandable(node) == ~node.is_expanded /\ Len(all_legal_moves(node.state)) > 0

\* C7 as stated: the step of an expansion strategy returns true iff it
\* expanded at least one node: the current-node strategy iff the current node
\* was unexpanded at call time, the all-nodes strategy iff some resident node
\* was unexpanded at call time.
C7_StepReturnsWhetherExpanded ==
    [][ (last'.op = "step" /\ ~Mixed("BoundedExpansionMixin"))
        => /\ last'.ret <=> BagCardinality(last'.log) > 0
           /\ Mixed("CurrentStateExpansionMixin")
                 => (last'.ret <=> ~Deref(search_tree, current_state).is_expanded)
           /\ Mixed("OneStepSearchMixin")
                 => (last'.ret <=> AnyUnexpanded(search_tree)) ]_vars

\* C7 amended: the step of the current-node strategy and of the all-nodes
\* strategy returns true iff a node it expanded got at least one successor:
\* the current-node strategy iff the current node was unexpanded at call time
\* and its state has a legal move, the all-nodes strategy iff some resident
\* node was unexpanded at call time and its state has a legal move; a step
\* that expanded only finished states returns false.
C7_StepReturnsWhetherSuccessors ==
    [][ (/\ last'.op = "step"
         /\ ~Mixed("BoundedExpansionMixin")
         /\ ~Mixed("ForwardSweepingMixin"))
        => /\ last'.ret <=> \E i \in BagToSet(last'.log) :
                               get_successors(search_tree'[i.key]) # {}
           /\ Mixed("CurrentStateExpansionMixin")
                 => (last'.ret <=> Expandable(Deref(search_tree, current_state)))
           /\ Mixed("OneStepSearchMixin")
                 => (last'.ret <=> \E k \in DOMAIN search_tree :
                                     Expandable(search_tree[k])) ]_vars

\* A step expanded nodes, all of finished states, and returned false.
C7_Witness ==
    /\ last.op = "step"
    /\ ~Mixed("BoundedExpansionMixin")
    /\ BagCardinality(last.log) > 0
    /\ ~last.ret

\* The game states at most n moves away from the given states.
RECURSIVE StatesWithin(_, _)
StatesWithin(states, n) ==
    IF n = 0 THEN states
    ELSE StatesWithin(
             states \cup UNION {{game_make_move(s, m) :
                                   m \in SeqRange(all_legal_moves(s))} : s \in states},
             n - 1)

\* The keys of the states at most n moves away from the state.
KeysWithin(state, n) == {node_key(s) : s \in StatesWithin({state}, n)}

\* The keys of the states exactly n moves away from the state.
KeysAt(state, n) ==
    IF n = 0 THEN {node_key(state)}
    ELSE KeysWithin(state, n) \ KeysWithin(state, n - 1)

\* C8: with a search depth D >= 1 and no budget, one expand_search_tree call
\* of the sweeping engine from the current node c leaves every node less
\* than D moves away from c resident and expanded, expands no node D or more
\* moves away and no node twice, visits the nodes layer by layer, the i-th
\* layer being the nodes i - 1 moves away, so that no node is in two layers,
\* and runs at most D layer steps.
C8_ForwardSweepLayers ==
    [][ (last'.op = "expand" /\ Mixed("ForwardSweepingMixin") /\ node_limit = 0)
        => LET c == Deref(search_tree, current_state).state
               D == search_depth
               log == last'.log
               layers == last'.layers
           IN  /\ D >= 1
               /\ \A k \in KeysWithin(c, D - 1) :
                     k \in DOMAIN search_tree' /\ search_tree'[k].is_expanded
               /\ \A i \in BagToSet(log) :
                     /\ i.key \in KeysWithin(c, D - 1)
                     /\ ~i.was_expanded
                     /\ CopiesIn(i, log) = 1
                     /\ \A j \in BagToSet(log) : i.key = j.key => i = j
               /\ \A k \in DOMAIN search_tree \ KeysWithin(c, D - 1) :
                     search_tree'[k] = search_tree[k]
               /\ \A k \in DOMAIN search_tree' \ DOMAIN search_tree :
                     k \notin KeysWithin(c, D - 1) => ~search_tree'[k].is_expanded
               /\ \A i \in DOMAIN layers :
                     {n.key : n \in layers[i]} = KeysAt(c, i - 1)
               /\ \A i, j \in DOMAIN layers :
                     i # j => layers[i] \cap layers[j] = {}
               /\ last'.steps = Len(layers)
               /\ last'.steps <= D
               /\ last'.steps < D => KeysAt(c, last'.steps) = {} ]_vars

\* A sweep of depth two or more ran as many layer steps as its depth and left
\* unexpanded nodes, those of the layer after the last one it stepped.
C8_Witness ==
    /\ last.op = "expand"
    /\ Mixed("ForwardSweepingMixin")
    /\ search_depth >= 2
    /\ last.steps = search_depth
    /\ BagCardinality(last.log) > 1
    /\ \E k \in DOMAIN search_tree : ~search_tree[k].is_expanded

\* A sweep ended before its depth, a layer having no successors to visit.
C8_WitnessEndedEarly ==
    /\ last.op = "expand"
    /\ Mixed("ForwardSweepingMixin")
    /\ 1 <= last.steps
    /\ last.steps < search_depth

\* The game states reachable from the given states.
RECURSIVE ReachableStates(_)
ReachableStates(states) ==
    IF StatesWithin(states, 1) = states THEN states
    ELSE ReachableStates(StatesWithin(states, 1))

\* C9: the full expansion over the step that expands every unexpanded node
\* terminates, and when it returns every resident node is expanded and every
\* state reachable from the states resident at call time is resident.
C9_FullExpansionTerminates ==
    /\ [][ (call.pc = "loop" /\ call'.pc = "idle")
           => /\ \A k \in DOMAIN search_tree' : search_tree'[k].is_expanded
              /\ \A s \in ReachableStates(call.entry) :
                    /\ node_key(s) \in DOMAIN search_tree'
                    /\ search_tree'[node_key(s)].state.board = s.board ]_vars
    /\ (call.pc = "loop") ~> (call.pc = "idle")

\* A full expansion returned after three or more steps, the last of which
\* expanded only finished states.
C9_Witness ==
    /\ call.pc = "idle"
    /\ last.op = "expand"
    /\ last.steps >= 3
    /\ \E k \in DOMAIN search_tree : get_successors(search_tree[k]) = {}
    /\ Size(search_tree) > 4

\* C10 as stated: with a node limit N > 0 on the bounded full expansion,
\* expand_search_tree halts at the first step boundary at which the table
\* holds N nodes or more, and holds that many when it returns.
C10_HaltsAtNodeLimit ==
    [][ (/\ call.pc = "loop"
         /\ call.steps > 0
         /\ Mixed("BoundedExpansionMixin")
         /\ node_limit > 0
         /\ Size(search_tree) >= node_limit)
        => /\ call'.pc = "idle"
           /\ Size(search_tree') >= node_limit ]_vars

\* C10 amended: with a node limit N > 0 on the bounded full expansion, the
\* step returns false whenever it leaves N nodes or more in the table, and
\* expand_search_tree does not heed it: it runs another step as long as a
\* resident node is unexpanded, whatever the size of the table, and returns
\* only when every resident node is expanded.
C10_NodeLimitNotHeeded ==
    [][ (call.pc = "loop" /\ Mixed("BoundedExpansionMixin") /\ node_limit > 0)
        => /\ AnyUnexpanded(search_tree)
                 => /\ call'.pc = "loop"
                    /\ call'.steps = call.steps + 1
           /\ ~AnyUnexpanded(search_tree) => call'.pc = "idle"
           /\ (call'.pc = "loop" /\ Size(search_tree') >= node_limit)
                 => ~call'.step_ret ]_vars

\* A step was run, and grew the table, from a step boundary at which the
\* table held as many nodes as the limit or more and the step before had
\* returned false.
C10_Witness ==
    /\ call.pc = "loop"
    /\ Mixed("BoundedExpansionMixin")
    /\ node_limit > 0
    /\ call.steps >= 2
    /\ call.size_before >= node_limit
    /\ Size(search_tree) > call.size_before
    /\ ~call.step_ret

\* C11: the bounded step runs the wrapped step to its end, raises nothing,
\* and returns the wrapped step's result and not (a configured limit is
\* reached after it): the table is the wrapped step's; without limits the
\* return value is the wrapped step's too; with a node limit N > 0 it is false
\* whenever the table holds N nodes or more after the wrapped step.
C11_BoundedStep ==
    [][ (last'.op = "step" /\ Mixed("BoundedExpansionMixin"))
        => LET inner == inner_step(search_tree, current_state)
               node_limit_reached ==
                   node_limit > 0 /\ Size(search_tree') >= node_limit
               time_limit_reached == time_limit > 0 /\ last'.timed_out
           IN  /\ search_tree' = inner.tree
               /\ last'.log = inner.log
               /\ last'.raised = ""
               /\ last'.ret <=>
                     (inner.ret /\ ~(node_limit_reached \/ time_limit_reached))
               /\ (node_limit = 0 /\ time_limit = 0) => (last'.ret <=> inner.ret)
               /\ node_limit_reached => ~last'.ret ]_vars

\* A bounded step without a time limit expanded a node that got successors,
\* left exactly as many nodes as the node limit, and returned false.
C11_Witness ==
    /\ last.op = "step"
    /\ Mixed("BoundedExpansionMixin")
    /\ time_limit = 0
    /\ Size(search_tree) = node_limit
    /\ ~last.ret
    /\ \E i \in BagToSet(last.log) :
          get_successors(search_tree[i.key]) # {}

\* A bounded step without any limit returned true.
C11_WitnessUnlimited ==
    /\ last.op = "step"
    /\ Mixed("BoundedExpansionMixin")
    /\ node_limit = 0
    /\ time_limit = 0
    /\ last.ret
\* C12: the engine playing both sides from the empty board, fully expanded,
\* scoring by minimax and selecting a best move (the first, or any of them),
\* never has a current state in which a player has won.
C12_NoWinner ==
    LET state == search_tree[current_state.key].state
    IN  ~is_winner(state, PLAYER_X) /\ ~is_winner(state, PLAYER_O)

\* play() has returned on a finished game that nobody won, all nine moves made
C12_Witness ==
    /\ last.op = "play" /\ call.pc = "idle" /\ last.steps = 9
    /\ is_finished(search_tree[current_state.key].state)
    /\ winner(search_tree[current_state.key].state) = None

\* C13: from the empty board, after the Full expansion of the first
\* choose_move, the minimax score of the current node for the opening player
\* X is 0.
C13_RootScoreZero ==
    (call.pc = "chosen" /\ call.moves = 0 /\ current_state.key = node_key(starting_state))
       => scores[current_state.key][PLAYER_X] = 0

\* What the score is: that of the draw, -0.5 for either player (-1 in halves).
C13_RootScoreIsDraw ==
    (call.pc = "chosen" /\ call.moves = 0 /\ current_state.key = node_key(starting_state))
       => scores[current_state.key] = ScorePair(-1, -1)

\* C14: for every finished state the game reaches from the starting state,
\* a win of either player or a full board, the evaluation of X is the
\* negative of the evaluation of O.
C14_EvaluateZeroSum ==
    LET state == search_tree[current_state.key].state
    IN  is_finished(state)
           => evaluate(state)[PLAYER_X] = -evaluate(state)[PLAYER_O]

\* The entry under the key of the state holds the state.
C15_StoredAt(tree, key, game_state) ==
    key \in DOMAIN tree /\ tree[key].state = game_state

C15_StoredUnderKey(tree, game_state) ==
    C15_StoredAt(tree, node_key(game_state), game_state)

\* C15: the key identifies the state.  Every entry of the table is stored
\* under the key of its state, and the entry under the key of any successor
\* state of a resident expanded node holds that very state, board and active
\* player: so a state the game reaches has the key of a resident state iff
\* it is that state, and a board reached by two move orders has one entry.
\* The table of the fully expanding engine holds every state reachable from
\* the starting state.
C15_KeyIdentifiesState ==
    \A k \in DOMAIN search_tree :
       /\ node_key(search_tree[k].state) = k
       /\ search_tree[k].is_expanded
             => \A m \in SeqRange(all_legal_moves(search_tree[k].state)) :
                   C15_StoredUnderKey(search_tree,
                                      game_make_move(search_tree[k].state, m))

\* The board with X on (0,0) and (2,0) and O on (1,0), reached by X opening
\* on (0,0) and by X opening on (2,0), is in the table once, as the successor
\* of both.
C15_TransposedFrom(first, third) ==
    game_make_move(game_make_move(game_make_move(starting_state, first), <<1, 0>>), third)

C15_Witness ==
    LET before_1 == game_make_move(game_make_move(starting_state, <<0, 0>>), <<1, 0>>)
        before_2 == game_make_move(game_make_move(starting_state, <<2, 0>>), <<1, 0>>)
        key == node_key(C15_TransposedFrom(<<0, 0>>, <<2, 0>>))
    IN  /\ C15_TransposedFrom(<<0, 0>>, <<2, 0>>) = C15_TransposedFrom(<<2, 0>>, <<0, 0>>)
        /\ node_key(before_1) # node_key(before_2)
        /\ {node_key(before_1), node_key(before_2), key} \subseteq DOMAIN search_tree
        /\ search_tree[node_key(before_1)].successors[<<2, 0>>].key = key
        /\ search_tree[node_key(before_2)].successors[<<0, 0>>].key = key
        /\ search_tree[key].state = C15_TransposedFrom(<<0, 0>>, <<2, 0>>)

\* C16: Full mixed in with Bounded, the bound has no effect: whatever the
\* node limit, expand_search_tree ends with the table of Full alone, the same
\* keys and every node expanded.
C16_FullAlone(tree) == full_expand(tree, 0, EmptyBag, 0).tree

C16_SameAsFullAlone(tree, after, full_alone) ==
    /\ after = full_alone
    /\ DOMAIN after = DOMAIN full_alone
    /\ ~AnyUnexpanded(after)
    /\ \A limit \in 1 .. NodeLimit + 2 :
          full_expand(tree, limit, EmptyBag, 0).tree = full_alone

C16_BoundNullified ==
    [][ (last'.op = "expand" /\ Mixed("FullExpansionMixin")
           /\ Mixed("BoundedExpansionMixin"))
        => C16_SameAsFullAlone(search_tree, search_tree', C16_FullAlone(search_tree)) ]_vars

\* The expansion went on, step after step, with the table over the limit
C16_Witness ==
    /\ last.op = "expand"
    /\ Mixed("FullExpansionMixin") /\ Mixed("BoundedExpansionMixin")
    /\ node_limit > 0
    /\ 3 <= last.steps
    /\ node_limit + 2 <= Size(search_tree)

\* C17: under Bounded over the forward sweep with a node limit and without
\* pruning the table never shrinks, and every expand_search_tree call made
\* with the table at the limit or over it runs exactly one layer step.
C17_OneCycleAtLimit ==
    [][ /\ Size(search_tree') >= Size(search_tree)
        /\ (last'.op = "expand" /\ node_limit > 0
              /\ Size(search_tree) >= node_limit)
           => last'.steps = 1 ]_vars

\* A call ended after its first layer step, at the limit before it began (it
\* expanded nothing), with a search depth of two layers or more and an
\* unexpanded node in the layer it did not go on to.
C17_Witness ==
    /\ last.op = "expand" /\ last.steps = 1 /\ last.log = EmptyBag
    /\ 2 <= search_depth
    /\ 0 < node_limit /\ node_limit <= Size(search_tree)
    /\ \E k \in get_successors(search_tree[current_state.key]) :
          ~search_tree[k].is_expanded /\ ~is_finished(search_tree[k].state)

\* C18: in every state of the engine, after pruning too, every successor
\* recorded in a resident node is itself resident, and so in particular the
\* successors of the current node that make_move looks up.
C18_SuccessorClosure ==
    \A k \in DOMAIN search_tree :
       get_successors(search_tree[k]) \subseteq DOMAIN search_tree

\* The pruning has deleted nodes and has left an expanded node with successors
\* below the current one.
C18_Witness ==
    /\ last.op = "make_move" /\ last.raised = ""
    /\ Mixed("NaivePruningMixin")
    /\ Size(search_tree) < last.post_move_size
    /\ \E k \in get_successors(search_tree[current_state.key]) :
          search_tree[k].is_expanded /\ get_successors(search_tree[k]) # {}

\* C19: whatever the composition and the order of the calls, no call invokes
\* expand on a node that is expanded already, and no node that stays in the
\* table goes from expanded back to unexpanded.
C19_ExpandedOnce ==
    [][ /\ \A i \in BagToSet(last'.log) : ~i.was_expanded
        /\ \A k \in DOMAIN search_tree \cap DOMAIN search_tree' :
              search_tree[k].is_expanded => search_tree'[k].is_expanded ]_vars

\* An expansion call has expanded nodes and has passed over the current
\* node, expanded before the call.
C19_Witness ==
    /\ last.op \in {"step", "expand"}
    /\ last.log # EmptyBag
    /\ search_tree[current_state.key].is_expanded
    /\ \A i \in BagToSet(last.log) : i.key # current_state.key

\* C20: in the example composition play() from the starting state ends, the
\* current state finished, after nine committed moves at most; in every
\* iteration the current node is expanded after expand_search_tree and
\* choose_move returns a move, never none, that is legal in the current
\* state, whichever of the best moves the selection takes.
C20_MoveChosen ==
    call.pc = "chosen"
       => /\ search_tree[current_state.key].is_expanded
          /\ call.move # << >>
          /\ call.move \in Coords
          /\ is_legal_move(search_tree[current_state.key].state, call.move)

C20_Returned ==
    /\ last.op = "play" /\ call.pc = "idle"
    /\ last.steps <= 9
    /\ _is_finished(search_tree[current_state.key])

C20_InPlay ==
    /\ last.raised = ""
    /\ call.pc \in {"play", "chosen"} => call.moves <= 9
    /\ call.pc = "chosen" => call.moves < 9

C20_ExamplePlayTerminates ==
    /\ [](C20_MoveChosen /\ C20_InPlay)
    /\ (call.pc = "play") ~> C20_Returned

\* play() has returned from a game of nine moves, and from a shorter one
C20_Witness == C20_Returned /\ last.steps = 9

C20_WitnessShorter == C20_Returned /\ last.steps < 9

=============================================================================
